---- MODULE Spec2Model ----
(***************************************************************************)
(* Model of app.py, the Multilingual LinkedIn Post Tool: the text         *)
(* sanitizer, the cached web search, the post composer, the publish call  *)
(* and the button handlers that drive them over the session state.        *)
(*                                                                         *)
(* A Python str is a sequence of one-character strings.  Python's None is *)
(* the text <<"None">> where a str is expected and the string "None" where *)
(* an error message is expected.  A dict with optional keys is a function *)
(* whose DOMAIN is the set of keys present.                                *)
(***************************************************************************)
EXTENDS Integers, Sequences, FiniteSets, TLC

VARIABLES
    generated_posts,   \* st.session_state.generated_posts
    search_results,    \* st.session_state.search_results
    composed_from,     \* history: the content_data each stored post was generated from
    cache,             \* the st.cache_data store of search_web_content
    now,               \* wall clock, in seconds
    calls,             \* history: the calls made to search_web_content
    last,              \* what the most recent script run did and displayed
    cx, cy, cz,        \* sanitizer harness: input, one pass, two passes
    gen                \* composer harness: input and the summary it built

vars == <<generated_posts, search_results, composed_from, cache, now, calls,
          last, cx, cy, cz, gen>>

----------------------------------------------------------------------------
(* Bounds of the model *)

MaxLen == 5        \* longest text given to the sanitizer harness
MaxOrganic == 6    \* most organic items in a search response
MaxNews == 4       \* most news items in a search response
MaxCalls == 3      \* most calls recorded by the search-cache harness
MaxClock == 3600   \* the clock stops advancing here
TickStep == 1800   \* seconds per clock step

----------------------------------------------------------------------------
(* Python values *)

None == <<"None">>
NoError == "None"

Truthy(v) == v # None /\ v # <<>>

\* None where a dict is expected
NoneDict == [None |-> TRUE]

\* the truth value of a list or of a dict: it has an element or a key
NonEmpty(d) == DOMAIN d # {}

Min(a, b) == IF a < b THEN a ELSE b

Whitespace == {" ", "\n", "\t"}

----------------------------------------------------------------------------
(* clean_text_content, app.py 118-133 *)

\* position of the first ")" of s at or after index i, 0 when there is none
RECURSIVE FirstClose(_, _)
FirstClose(s, i) ==
    IF i > Len(s) THEN 0
    ELSE IF s[i] = ")" THEN i
    ELSE FirstClose(s, i + 1)

\* re.sub(r'\([^)]*\)', '', text): leftmost non-overlapping spans from a "("
\* to the next ")" are removed
RECURSIVE RemoveParenSpans(_)
RemoveParenSpans(s) ==
    IF s = <<>> THEN <<>>
    ELSE IF Head(s) = "(" /\ FirstClose(s, 2) # 0
         THEN RemoveParenSpans(SubSeq(s, FirstClose(s, 2) + 1, Len(s)))
         ELSE <<Head(s)>> \o RemoveParenSpans(Tail(s))

\* text.strip(): leading and trailing whitespace removed
RECURSIVE LStrip(_)
LStrip(s) ==
    IF s # <<>> /\ Head(s) \in Whitespace THEN LStrip(Tail(s)) ELSE s

RECURSIVE RStrip(_)
RStrip(s) ==
    IF s # <<>> /\ s[Len(s)] \in Whitespace
    THEN RStrip(SubSeq(s, 1, Len(s) - 1)) ELSE s

Strip(s) == RStrip(LStrip(s))

\* ' '.join(text.split()): whitespace runs become one space, none at the ends
RECURSIVE CollapseRuns(_)
CollapseRuns(s) ==
    IF s = <<>> THEN <<>>
    ELSE IF Head(s) \in Whitespace
         THEN <<" ">> \o CollapseRuns(LStrip(s))
         ELSE <<Head(s)>> \o CollapseRuns(Tail(s))

JoinSplit(s) == CollapseRuns(Strip(s))

\* variant: only the opening parenthesis is replaced
RemoveOpenParens(s) == SelectSeq(s, LAMBDA ch : ch # "(")

\* text.replace('(', '').replace(')', '')
RemoveParens(s) == SelectSeq(s, LAMBDA ch : ch \notin {"(", ")"})

clean_text_content(text) ==
    IF ~Truthy(text) THEN text
    ELSE Strip(RemoveParens(JoinSplit(RemoveParenSpans(text))))

----------------------------------------------------------------------------
(* Sanitizer harness: apply clean_text_content once and twice to a text *)

Alphabet == {"(", ")", " ", "\n", "a"}

RECURSIVE TextsUpTo(_)
TextsUpTo(n) ==
    IF n = 0 THEN {<<>>}
    ELSE LET shorter == TextsUpTo(n - 1)
         IN shorter \cup {Append(t, ch) : t \in {u \in shorter : Len(u) = n - 1},
                                          ch \in Alphabet}


\* marks a harness slot that has not been computed yet
Unset == <<"Unset">>

InitSession ==
    /\ generated_posts = <<>>
    /\ search_results = <<>>
    /\ composed_from = <<>>
    /\ last = [op |-> "start"]

InitStore ==
    /\ cache = <<>>
    /\ now = 0
    /\ calls = <<>>

InitCleanIdle == cx = Unset /\ cy = Unset /\ cz = Unset

InitComposeIdle == gen = [pc |-> "idle"]

InitClean ==
    /\ InitSession /\ InitStore /\ InitComposeIdle
    /\ cx \in TextsUpTo(MaxLen)
    /\ cy = Unset
    /\ cz = Unset

CleanOnce ==
    /\ cx # Unset /\ cy = Unset
    /\ cy' = clean_text_content(cx)
    /\ UNCHANGED <<generated_posts, search_results, composed_from, cache, now,
                   calls, last, cx, cz, gen>>

CleanTwice ==
    /\ cy # Unset /\ cz = Unset
    /\ cz' = clean_text_content(cy)
    /\ UNCHANGED <<generated_posts, search_results, composed_from, cache, now,
                   calls, last, cx, cy, gen>>

NextClean == CleanOnce \/ CleanTwice

SpecClean == InitClean /\ [][NextClean]_vars

----------------------------------------------------------------------------
(* Search responses: the JSON object the provider returns, with optional   *)
(* "organic" and "news" arrays of items with optional title, snippet, link *)

Digit(k) == <<"1", "2", "3", "4", "5", "6", "7", "8", "9">>[k]

\* item k of an array; the style decides which fields it has and what
\* noise (parentheses, whitespace runs) its texts carry
Item(kind, k, style) ==
    CASE style = 1 ->
           [title |-> <<kind, Digit(k)>>,
            snippet |-> <<"s", Digit(k)>>,
            link |-> <<"L", kind, Digit(k)>>]
      [] style = 2 ->
           [title |-> <<kind, "(", "x", ")", Digit(k)>>,
            snippet |-> <<"s", " ", ")", "\n", Digit(k)>>]
      [] OTHER ->
           [title |-> <<" ", kind, "\n", "\n", Digit(k), "(">>,
            link |-> <<>>]

Response(hasOrganic, o, hasNews, w, style) ==
    [k \in (IF hasOrganic THEN {"organic"} ELSE {})
             \cup (IF hasNews THEN {"news"} ELSE {}) |->
        IF k = "organic" THEN [i \in 1..o |-> Item("o", i, style)]
                         ELSE [i \in 1..w |-> Item("n", i, style)]]

\* the provider's answer to one HTTP request: an error (transport error,
\* non-2xx status) or a JSON body
ProviderError == [status |-> "error", json |-> <<>>]
ProviderOk(r) == [status |-> "ok", json |-> r]

----------------------------------------------------------------------------
(* search_web_content, app.py 94-115, under @st.cache_data(ttl=3600) *)

ttl == 3600

\* the body of the function, run on a cache miss; http counts the
\* requests.post calls it makes
search_web_content_body(query, search_type, api_key, num_results, provider) ==
    IF api_key = ""
    THEN [results |-> NoneDict, error |-> "Serper API key is required", http |-> 0]
    ELSE IF provider.status = "ok"
         THEN [results |-> provider.json, error |-> NoError, http |-> 1]
         ELSE [results |-> NoneDict, error |-> "Search failed", http |-> 1]

\* st.cache_data hashes every argument of the call
CacheKey(query, search_type, api_key, num_results) ==
    <<query, search_type, api_key, num_results>>

\* variant: the age test is inverted
CacheFreshInverted(c, k, t) == k \in DOMAIN c /\ t - c[k].stored >= ttl

\* an entry is served until ttl seconds after it was stored
CacheFresh(c, k, t) == k \in DOMAIN c /\ t - c[k].stored < ttl

\* entries that have outlived ttl are dropped when a new one is stored
CacheStore(c, k, v, t) ==
    [j \in {i \in DOMAIN c : CacheFresh(c, i, t)} \cup {k} |->
        IF j = k THEN [value |-> v, stored |-> t] ELSE c[j]]

\* one call of the cached function at time t: the returned pair, the
\* number of HTTP requests issued and the cache afterwards
search_web_content(c, t, query, search_type, api_key, num_results, provider) ==
    LET k == CacheKey(query, search_type, api_key, num_results)
        r == search_web_content_body(query, search_type, api_key, num_results,
                                     provider)
        v == [results |-> r.results, error |-> r.error]
    IN  IF CacheFresh(c, k, t)
        THEN [results |-> c[k].value.results, error |-> c[k].value.error,
              http |-> 0, cache |-> c]
        ELSE [results |-> r.results, error |-> r.error,
              http |-> r.http, cache |-> CacheStore(c, k, v, t)]

\* time passes
Tick ==
    /\ now < MaxClock
    /\ now' = now + TickStep
    /\ UNCHANGED <<generated_posts, search_results, composed_from, cache,
                   calls, last, cx, cy, cz, gen>>

----------------------------------------------------------------------------
(* Search harness: calls of search_web_content, recorded in calls *)

HarnessQueries == {<<"a", "i">>}
HarnessModes == {"search", "news"}
HarnessKeys == {"", "k1", "k2"}
HarnessCounts == {10}
HarnessProvider == {ProviderError, ProviderOk(Response(TRUE, 1, FALSE, 0, 1))}

InitCache ==
    /\ InitSession /\ InitStore /\ InitCleanIdle /\ InitComposeIdle

CallSearchHit(query, search_type, api_key, num_results) ==
    LET r == search_web_content(cache, now, query, search_type, api_key,
                                num_results, ProviderError)
    IN  /\ Len(calls) < MaxCalls
        /\ CacheFresh(cache, CacheKey(query, search_type, api_key, num_results), now)
        /\ cache' = r.cache
        /\ calls' = Append(calls, [query |-> query, search_type |-> search_type,
                                   api_key |-> api_key, num_results |-> num_results,
                                   time |-> now, http |-> r.http, error |-> r.error])
        /\ UNCHANGED <<generated_posts, search_results, composed_from, now,
                       last, cx, cy, cz, gen>>

CallSearchMiss(query, search_type, api_key, num_results, provider) ==
    LET r == search_web_content(cache, now, query, search_type, api_key,
                                num_results, provider)
    IN  /\ Len(calls) < MaxCalls
        /\ ~CacheFresh(cache, CacheKey(query, search_type, api_key, num_results), now)
        /\ cache' = r.cache
        /\ calls' = Append(calls, [query |-> query, search_type |-> search_type,
                                   api_key |-> api_key, num_results |-> num_results,
                                   time |-> now, http |-> r.http, error |-> r.error])
        /\ UNCHANGED <<generated_posts, search_results, composed_from, now,
                       last, cx, cy, cz, gen>>

CallSearch ==
    \E query \in HarnessQueries, search_type \in HarnessModes,
       api_key \in HarnessKeys, num_results \in HarnessCounts :
        \/ CallSearchHit(query, search_type, api_key, num_results)
        \/ \E provider \in HarnessProvider :
              CallSearchMiss(query, search_type, api_key, num_results, provider)

NextCache == CallSearch \/ Tick

SpecCache == InitCache /\ [][NextCache]_vars

----------------------------------------------------------------------------
(* generate_linkedin_post, app.py 136-201 *)

\* item.get(key, '')
Get(item, key) == IF key \in DOMAIN item THEN item[key] ELSE <<>>

\* variant: the slice is one item too long
TopOneMore(seq, n) == SubSeq(seq, 1, Min(Len(seq), n + 1))

\* seq[:n]
Top(seq, n) == SubSeq(seq, 1, Min(Len(seq), n))

\* the bullet character U+2022 that starts every summary line
Bullet == "*"

\* f"{Bullet} {title}: {snippet}\n" with both texts cleaned
SummaryLine(item) ==
    <<Bullet, " ">> \o clean_text_content(Get(item, "title")) \o <<":", " ">>
        \o clean_text_content(Get(item, "snippet")) \o <<"\n">>

\* the body of the two for loops: one line appended per item, and the
\* item's link collected when it has a non-empty one
RECURSIVE SummariseItems(_, _)
SummariseItems(items, acc) ==
    IF items = <<>> THEN acc
    ELSE LET item == Head(items)
         IN SummariseItems(Tail(items),
               [content_summary |-> acc.content_summary \o SummaryLine(item),
                links |-> IF Truthy(Get(item, "link"))
                          THEN Append(acc.links, item["link"])
                          ELSE acc.links])

\* lines 145-162: top 5 organic results, then top 3 news items
Summarise(content_data) ==
    LET start == [content_summary |-> <<>>, links |-> <<>>]
        afterOrganic ==
            IF "organic" \in DOMAIN content_data
            THEN SummariseItems(Top(content_data["organic"], 5), start)
            ELSE start
    IN  IF "news" \in DOMAIN content_data
        THEN SummariseItems(Top(content_data["news"], 3), afterOrganic)
        ELSE afterOrganic

\* lines 165-188: the variable parts of base_prompt
BasePrompt(content_data, custom_prompt, target_language) ==
    LET s == Summarise(content_data)
    IN  [target_language |-> target_language,
         content_summary |-> s.content_summary,
         links |-> Top(s.links, 3),
         custom_prompt |-> IF Truthy(custom_prompt) THEN custom_prompt ELSE <<>>]

\* the model's answer to one invocation: an exception or a response text
LlmError == [status |-> "error", content |-> <<>>]
LlmOk(text) == [status |-> "ok", content |-> text]

\* the text handed to llm.invoke at line 196, None when the call returns
\* before reaching it
LlmInput(content_data, custom_prompt, api_key, target_language) ==
    IF api_key = "" THEN None
    ELSE BasePrompt(content_data, custom_prompt, Strip(target_language))

\* the returned pair and whether the model was invoked
generate_linkedin_post(content_data, custom_prompt, api_key, target_language, llm) ==
    IF api_key = ""
    THEN [content |-> None, error |-> "OpenAI API key is required",
          invoked |-> FALSE]
    ELSE IF llm.status = "ok"
         THEN [content |-> clean_text_content(llm.content), error |-> NoError,
               invoked |-> TRUE]
         ELSE [content |-> None, error |-> "Post generation failed",
               invoked |-> TRUE]

----------------------------------------------------------------------------
(* Composer harness: one call of generate_linkedin_post on a response *)

English == <<"E", "n", "g", "l", "i", "s", "h">>

\* a response the model may give: with a parenthetical aside and a stray
\* parenthesis, or nothing but an aside
DraftText == <<"H", "i", " ", "(", "x", ")", ")">>
AsideText == <<"(", "x", ")">>
LlmOutcomes == {LlmError, LlmOk(DraftText), LlmOk(AsideText)}

HarnessResponses ==
    {Response(ho, o, hn, w, style) :
        ho \in BOOLEAN, o \in 0..MaxOrganic, hn \in BOOLEAN, w \in 0..MaxNews,
        style \in 1..3}

InitCompose ==
    /\ InitSession /\ InitStore /\ InitCleanIdle
    /\ gen \in {[pc |-> "ready", content_data |-> r] : r \in HarnessResponses}

Compose(api_key, llm) ==
    /\ gen.pc = "ready"
    /\ gen' = [pc |-> "done", content_data |-> gen.content_data,
               api_key |-> api_key,
               prompt |-> LlmInput(gen.content_data, <<>>, api_key, English),
               out |-> generate_linkedin_post(gen.content_data, <<>>, api_key,
                                              English, llm)]
    /\ UNCHANGED <<generated_posts, search_results, composed_from, cache, now,
                   calls, last, cx, cy, cz>>

NextCompose == \E api_key \in {"", "o1"}, llm \in LlmOutcomes : Compose(api_key, llm)

SpecCompose == InitCompose /\ [][NextCompose]_vars

----------------------------------------------------------------------------
(* upload_to_linkedin, app.py 204-228 *)

\* what happens inside the try block: the agent run returns, or an
\* exception is raised before or after the first network call
AgentOutcomes == {"ok", "raised_early", "raised_late"}

\* openai_api_key is the module-level widget value read at line 210
upload_to_linkedin(post_content, author_urn, api_key, openai_api_key, agent) ==
    IF api_key = ""
    THEN [error |-> "Composio API key is required", outbound |-> FALSE]
    ELSE IF agent = "ok"
         THEN [error |-> NoError, outbound |-> TRUE]
         ELSE [error |-> "LinkedIn upload failed", outbound |-> agent = "raised_late"]

----------------------------------------------------------------------------
(* The page script: one run per user action, app.py 281-500 *)

\* values the widgets can hold
SearchQueries == {<<>>, <<"a", "i">>}
SerperKeys == {"", "k1"}
OpenAIKeys == {"", "o1"}
ComposioKeys == {"", "c1"}
AuthorUrns == {<<>>, <<"u">>}
SearchTypes == {"search"}
ResultCounts == {10}
CustomPrompts == {<<>>, <<"B", " ", "(", "x", ")">>}
Languages == {English}
EditTexts == {<<>>, AsideText, <<"a", ")", " ", "(">>}

\* what the search provider may answer during a session
SessionProvider ==
    {ProviderError,
     ProviderOk(Response(TRUE, 1, FALSE, 0, 1)),
     ProviderOk(Response(FALSE, 0, TRUE, 1, 2))}

VariationLabel(i) == <<"Variation 1", "Variation 2", "Variation 3">>[i + 1]

\* variant: the two suffixes are exchanged
VariationPromptSwapped(custom_prompt, i) ==
    clean_text_content(custom_prompt) \o
        (CASE i = 1 -> <<"\n", "\n", "Make this version more data-driven and professional.">>
           [] i = 2 -> <<"\n", "\n", "Make this version more casual and story-driven.">>
           [] OTHER -> <<>>)

\* lines 359-363
VariationPrompt(custom_prompt, i) ==
    clean_text_content(custom_prompt) \o
        (CASE i = 1 -> <<"\n", "\n", "Make this version more casual and story-driven.">>
           [] i = 2 -> <<"\n", "\n", "Make this version more data-driven and professional.">>
           [] OTHER -> <<>>)

\* lines 358-379: for i in range(3); acc carries post_variations, the
\* content_data each appended post came from, and what each call returned.
\* A post's timestamp field, which nothing reads, is left out.
RECURSIVE VariationLoop(_, _, _, _, _, _, _)
VariationLoop(i, acc, results, custom_prompt, openai_api_key, selected_language, llms) ==
    IF i >= 3 THEN acc
    ELSE LET out == generate_linkedin_post(results,
                        VariationPrompt(custom_prompt, i), openai_api_key,
                        clean_text_content(selected_language), llms[i + 1])
             post == [content |-> out.content,
                      variation |-> VariationLabel(i),
                      language |-> clean_text_content(selected_language)]
             kept == Truthy(out.content)
         IN  VariationLoop(i + 1,
                [post_variations |-> IF kept THEN Append(acc.post_variations, post)
                                     ELSE acc.post_variations,
                 sources |-> IF kept THEN Append(acc.sources, results)
                             ELSE acc.sources,
                 returned |-> Append(acc.returned,
                                 [custom_prompt |-> VariationPrompt(custom_prompt, i),
                                  raw |-> llms[i + 1].content,
                                  content |-> out.content, error |-> out.error,
                                  invoked |-> out.invoked])],
                results, custom_prompt, openai_api_key, selected_language, llms)

\* variant: the draft list is assigned only when a draft was generated
StoreGeneratedIfAny(results, loop) ==
    /\ search_results' = results
    /\ IF loop.post_variations # <<>>
       THEN /\ generated_posts' = loop.post_variations
            /\ composed_from' = loop.sources
       ELSE UNCHANGED <<generated_posts, composed_from>>

\* lines 352 and 381: both session slots are assigned
StoreGenerated(results, loop) ==
    /\ search_results' = results
    /\ generated_posts' = loop.post_variations
    /\ composed_from' = loop.sources

\* lines 335-386, the "Search & Generate Posts" button; superseded records
\* that drafts of a different, earlier result set were on the page
SearchAndGenerate(search_query, search_type, serper_api_key, num_results, openai_api_key, custom_prompt, selected_language, provider, llms) ==
    LET keys == [serper_api_key |-> serper_api_key, openai_api_key |-> openai_api_key]
        typed == custom_prompt
    IN  IF ~Truthy(search_query) \/ serper_api_key = "" \/ openai_api_key = ""
        THEN /\ last' = [op |-> "search", stage |-> "rejected", keys |-> keys,
                         message |-> IF ~Truthy(search_query)
                                     THEN "Please enter a search query"
                                     ELSE IF serper_api_key = ""
                                     THEN "Please provide Serper API key in the sidebar"
                                     ELSE "Please provide OpenAI API key in the sidebar",
                         http |-> 0, returned |-> <<>>, reported |-> 0,
                         superseded |-> FALSE, search_calls |-> 0,
                         custom_prompt |-> typed]
             /\ UNCHANGED <<generated_posts, search_results, composed_from, cache>>
        ELSE \E r \in {search_web_content(cache, now, search_query, search_type,
                                           serper_api_key, num_results, provider)} :
             IF r.error # NoError
             THEN /\ cache' = r.cache
                  /\ last' = [op |-> "search", stage |-> "search_failed", keys |-> keys,
                              message |-> "Search failed", http |-> r.http,
                              returned |-> <<>>, reported |-> 0, superseded |-> FALSE,
                              search_calls |-> 1, custom_prompt |-> typed]
                  /\ UNCHANGED <<generated_posts, search_results, composed_from>>
             ELSE \E loop \in {VariationLoop(0, [post_variations |-> <<>>,
                                                  sources |-> <<>>, returned |-> <<>>],
                                              r.results, custom_prompt, openai_api_key,
                                              selected_language, llms)} :
                  /\ cache' = r.cache
                  /\ StoreGenerated(r.results, loop)
                  /\ last' = [op |-> "search", stage |-> "generated", keys |-> keys,
                              message |-> IF loop.post_variations # <<>>
                                          THEN "Generated post variations"
                                          ELSE "Failed to generate posts",
                              http |-> r.http, returned |-> loop.returned,
                              reported |-> Len(loop.post_variations),
                              superseded |-> /\ generated_posts # <<>>
                                             /\ search_results # r.results,
                              search_calls |-> 1, custom_prompt |-> typed]

NoLlms == [i \in 1..3 |-> LlmError]

SearchButton ==
    \E search_query \in SearchQueries, search_type \in SearchTypes,
       serper_api_key \in SerperKeys, num_results \in ResultCounts,
       openai_api_key \in OpenAIKeys, custom_prompt \in CustomPrompts,
       selected_language \in Languages :
      LET rejected == ~Truthy(search_query) \/ serper_api_key = "" \/ openai_api_key = ""
          hit == CacheFresh(cache, CacheKey(search_query, search_type,
                                            serper_api_key, num_results), now)
      IN  \E provider \in (IF rejected \/ hit THEN {ProviderError} ELSE SessionProvider) :
          \E llms \in (IF rejected \/ (~hit /\ provider.status # "ok")
                       THEN {NoLlms} ELSE [1..3 -> LlmOutcomes]) :
            /\ SearchAndGenerate(search_query, search_type, serper_api_key,
                                 num_results, openai_api_key, custom_prompt,
                                 selected_language, provider, llms)
            /\ UNCHANGED <<now, calls, cx, cy, cz, gen>>

\* lines 435-440: the text the edit box of post i can hold
EditChoices(i) == {generated_posts[i].content} \cup EditTexts

\* typing into an edit box reruns the script with no button pressed
Edit(i, edited) ==
    /\ i \in 1..Len(generated_posts)
    /\ last' = [op |-> "edit", index |-> i, edited |-> edited]
    /\ UNCHANGED <<generated_posts, search_results, composed_from, cache, now,
                   calls, cx, cy, cz, gen>>

\* variant: Copy writes the cleaned text back into the stored draft
CopyWriteBack(i, edited) ==
    /\ i \in 1..Len(generated_posts)
    /\ generated_posts' =
          [generated_posts EXCEPT ![i].content = clean_text_content(edited)]
    /\ last' = [op |-> "copy", index |-> i, edited |-> edited,
                shown |-> clean_text_content(edited),
                message |-> "Post copied"]
    /\ UNCHANGED <<search_results, composed_from, cache, now,
                   calls, cx, cy, cz, gen>>

\* lines 445-448, the "Copy" button of post i
Copy(i, edited) ==
    /\ i \in 1..Len(generated_posts)
    /\ last' = [op |-> "copy", index |-> i, edited |-> edited,
                shown |-> clean_text_content(edited),
                message |-> "Post copied"]
    /\ UNCHANGED <<generated_posts, search_results, composed_from, cache, now,
                   calls, cx, cy, cz, gen>>

\* lines 459-481, the "Upload to LinkedIn" button of post i
Upload(i, edited, composio_api_key, linkedin_author_urn, openai_api_key, agent) ==
    LET cleaned_content == clean_text_content(edited)
        up == upload_to_linkedin(cleaned_content, linkedin_author_urn,
                                 composio_api_key, openai_api_key, agent)
        keys == [composio_api_key |-> composio_api_key,
                 openai_api_key |-> openai_api_key]
    IN  /\ i \in 1..Len(generated_posts)
        /\ last' =
             IF composio_api_key = ""
             THEN [op |-> "upload", index |-> i, edited |-> edited,
                   called |-> FALSE, keys |-> keys,
                   post_content |-> None, author_urn |-> None, outbound |-> FALSE,
                   message |-> "Please provide Composio API key in the sidebar"]
             ELSE IF ~Truthy(linkedin_author_urn)
             THEN [op |-> "upload", index |-> i, edited |-> edited,
                   called |-> FALSE, keys |-> keys,
                   post_content |-> None, author_urn |-> None, outbound |-> FALSE,
                   message |-> "Please provide LinkedIn Author URN in the sidebar"]
             ELSE [op |-> "upload", index |-> i, edited |-> edited,
                   called |-> TRUE, keys |-> keys,
                   post_content |-> cleaned_content,
                   author_urn |-> linkedin_author_urn, outbound |-> up.outbound,
                   message |-> IF up.error # NoError THEN "Upload failed"
                               ELSE "Successfully uploaded to LinkedIn"]
        /\ UNCHANGED <<generated_posts, search_results, composed_from, cache, now,
                       calls, cx, cy, cz, gen>>

PostButtons ==
    \E i \in 1..Len(generated_posts) :
        \E edited \in EditChoices(i) :
            \/ Edit(i, edited)
            \/ Copy(i, edited)
            \/ \E composio_api_key \in ComposioKeys, linkedin_author_urn \in AuthorUrns,
                  openai_api_key \in OpenAIKeys :
                \E agent \in (IF composio_api_key = "" \/ ~Truthy(linkedin_author_urn)
                              THEN {"ok"} ELSE AgentOutcomes) :
                  Upload(i, edited, composio_api_key, linkedin_author_urn,
                         openai_api_key, agent)

\* lines 484-500, the "Clear All Data" button in the footer
Clear ==
    /\ NonEmpty(generated_posts) \/ NonEmpty(search_results)
    /\ generated_posts' = <<>>
    /\ search_results' = <<>>
    /\ composed_from' = <<>>
    /\ last' = [op |-> "clear"]
    /\ UNCHANGED <<cache, now, calls, cx, cy, cz, gen>>

\* lines 281-285
Init == InitSession /\ InitStore /\ InitCleanIdle /\ InitComposeIdle

Next == SearchButton \/ PostButtons \/ Clear \/ Tick

Spec == Init /\ [][Next]_vars

----------------------------------------------------------------------------
(* Properties *)

NoParens(text) == \A i \in 1..Len(text) : text[i] \notin {"(", ")"}

HasParens(text) == \E i \in 1..Len(text) : text[i] \in {"(", ")"}

\* C1: the Upload action never calls upload_to_linkedin with an empty
\* author identity or with empty content: whenever the call is made, the
\* author and the sanitized edited draft handed to it are both non-empty.
C1_UploadNeverCalledWithEmpty ==
    (last.op = "upload" /\ last.called) =>
        (last.author_urn # <<>> /\ last.post_content # <<>>)

SameTriple(a, b) ==
    /\ a.query = b.query
    /\ a.search_type = b.search_type
    /\ a.num_results = b.num_results

\* C2 as stated: of two search calls with the same query, mode and result
\* count, the first issuing the HTTP request and the second made less than
\* ttl seconds later, exactly one HTTP request is issued in total, whatever
\* else differs between the calls.
C2_OneRequestPerTriple ==
    \A i, j \in 1..Len(calls) :
        (/\ i < j
         /\ SameTriple(calls[i], calls[j])
         /\ calls[i].http = 1
         /\ calls[j].time - calls[i].time < ttl)
        => calls[i].http + calls[j].http = 1

\* C2 as amended: the same, for two calls that also pass the same API key.
C2_OneRequestPerKey ==
    \A i, j \in 1..Len(calls) :
        (/\ i < j
         /\ SameTriple(calls[i], calls[j])
         /\ calls[i].api_key = calls[j].api_key
         /\ calls[i].http = 1
         /\ calls[j].time - calls[i].time < ttl)
        => calls[i].http + calls[j].http = 1

C2_Witness ==
    \E i, j \in 1..Len(calls) :
        /\ i < j
        /\ SameTriple(calls[i], calls[j])
        /\ calls[i].api_key = calls[j].api_key
        /\ calls[i].http = 1
        /\ calls[j].time > calls[i].time
        /\ calls[j].time - calls[i].time < ttl
        /\ calls[j].http = 0

NonFailed(returned) == {i \in 1..Len(returned) : returned[i].error = NoError}

\* C3: after a Search & Generate run that reached generation, the number
\* of drafts stored and the number reported both equal the number of
\* compose calls that returned without a failure, and success is reported
\* exactly when that number is at least 1.
C3_CountEqualsNonFailed ==
    (last.op = "search" /\ last.stage = "generated") =>
        /\ Len(generated_posts) = Cardinality(NonFailed(last.returned))
        /\ last.reported = Cardinality(NonFailed(last.returned))
        /\ (last.message = "Generated post variations")
              <=> (Cardinality(NonFailed(last.returned)) >= 1)

\* C4: no stored draft, no text shown by Copy and no text handed to the
\* publish call contains "(" or ")".
C4_NoParensAtOutput ==
    /\ \A i \in 1..Len(generated_posts) : NoParens(generated_posts[i].content)
    /\ last.op = "copy" => NoParens(last.shown)
    /\ (last.op = "upload" /\ last.called) => NoParens(last.post_content)

C4_Witness ==
    /\ last.op = "upload" /\ last.called
    /\ HasParens(last.edited)
    /\ last.post_content # <<>>
    /\ generated_posts # <<>>

\* C5: sanitize is idempotent: cleaning an already cleaned text returns it
\* unchanged, clean_text_content(clean_text_content(x)) = clean_text_content(x)
C5_Idempotent == cz # Unset => cz = cy

\* C6: no outbound call is made while a credential it needs is empty:
\* a search run with an empty search key issues no HTTP request, one with
\* an empty generation key invokes no model, and an upload run with an
\* empty publish key or an empty generation key makes no outbound call and
\* shows a failure.
C6_NoCallWithoutCredential ==
    /\ last.op = "search" =>
          /\ last.keys.serper_api_key = "" => last.http = 0
          /\ last.keys.openai_api_key = "" =>
                \A i \in 1..Len(last.returned) : ~last.returned[i].invoked
    /\ (/\ last.op = "upload"
        /\ \/ last.keys.composio_api_key = ""
           \/ last.keys.openai_api_key = "")
       => (~last.outbound /\ last.message # "Successfully uploaded to LinkedIn")

\* the text split at its newline characters, each piece without its newline
RECURSIVE LinesOf(_, _)
LinesOf(text, line) ==
    IF text = <<>> THEN (IF line = <<>> THEN <<>> ELSE <<line>>)
    ELSE IF Head(text) = "\n" THEN <<line>> \o LinesOf(Tail(text), <<>>)
    ELSE LinesOf(Tail(text), Append(line, Head(text)))

ItemsOf(content_data, key) ==
    IF key \in DOMAIN content_data THEN content_data[key] ELSE <<>>

\* C7: the content summary handed to the model has exactly min(o,5) lines
\* for the first organic items followed by exactly min(w,3) lines for the
\* first news items, in the original order, each line being the bullet, the
\* cleaned title, ": " and the cleaned snippet.
C7_SummaryLines ==
    (gen.pc = "done" /\ gen.api_key # "") =>
        LET organic == ItemsOf(gen.content_data, "organic")
            news == ItemsOf(gen.content_data, "news")
            no == Min(Len(organic), 5)
            nn == Min(Len(news), 3)
            lines == LinesOf(gen.prompt.content_summary, <<>>)
            Expected(item) ==
                <<Bullet, " ">> \o clean_text_content(Get(item, "title"))
                    \o <<":", " ">> \o clean_text_content(Get(item, "snippet"))
        IN  /\ Len(lines) = no + nn
            /\ \A i \in 1..no : lines[i] = Expected(organic[i])
            /\ \A j \in 1..nn : lines[no + j] = Expected(news[j])

C7_Witness ==
    /\ gen.pc = "done" /\ gen.api_key # ""
    /\ Len(ItemsOf(gen.content_data, "organic")) > 5
    /\ Len(ItemsOf(gen.content_data, "news")) > 3
    /\ Len(LinesOf(gen.prompt.content_summary, <<>>)) = 8

\* C8: a failed search is not remembered: when a call that issued its
\* request ended in a search failure, an identical call made less than ttl
\* seconds later issues a new HTTP request.
C8_FailureNotCached ==
    \A i, j \in 1..Len(calls) :
        (/\ i < j
         /\ SameTriple(calls[i], calls[j])
         /\ calls[i].api_key = calls[j].api_key
         /\ calls[i].http = 1
         /\ calls[i].error # NoError
         /\ calls[j].time - calls[i].time < ttl)
        => calls[j].http = 1

\* C9: every stored draft was composed from the search result set that is
\* currently stored, and a run of Clear leaves both slots empty.
C9_DraftsMatchResults ==
    /\ Len(composed_from) = Len(generated_posts)
    /\ \A i \in 1..Len(generated_posts) : composed_from[i] = search_results
    /\ last.op = "clear" => (generated_posts = <<>> /\ search_results = <<>>)

C9_Witness ==
    /\ last.op = "search" /\ last.stage = "generated"
    /\ last.superseded
    /\ generated_posts # <<>>

\* C10: a run of edit, copy or upload leaves the stored draft list and the
\* stored search results as they were, and the draft list changes only in a
\* run of Search & Generate whose search succeeded or in a run of Clear.
C10_OnlySearchOrClearChange ==
    [][/\ last'.op \in {"edit", "copy", "upload"} =>
            UNCHANGED <<generated_posts, search_results>>
       /\ generated_posts' # generated_posts =>
            \/ last'.op = "clear"
            \/ last'.op = "search" /\ last'.stage = "generated"]_vars

C10_Witness ==
    /\ last.op = "upload" /\ last.called
    /\ last.message = "Upload failed"
    /\ last.edited # generated_posts[last.index].content

\* the suffixes of the second and the third variant
CasualSuffix == <<"\n", "\n", "Make this version more casual and story-driven.">>
DataSuffix == <<"\n", "\n", "Make this version more data-driven and professional.">>

\* what every Search & Generate run does around the compose calls: at most
\* one search call and one HTTP request; three compose calls, the second
\* and the third with their suffix appended to what the first was given,
\* when the search succeeded; none when the run stopped earlier
SearchRunShape ==
    /\ last.search_calls <= 1
    /\ last.http <= 1
    /\ last.stage = "generated" =>
          /\ Len(last.returned) = 3
          /\ last.returned[2].custom_prompt =
                last.returned[1].custom_prompt \o CasualSuffix
          /\ last.returned[3].custom_prompt =
                last.returned[1].custom_prompt \o DataSuffix
    /\ last.stage \in {"rejected", "search_failed"} => last.returned = <<>>
    /\ last.stage = "rejected" => last.search_calls = 0

\* C11 as stated: a Search & Generate run makes at most one search call;
\* after a successful search it makes exactly 3 compose calls in order, the
\* first with the style instructions unmodified, the second with the
\* casual suffix, the third with the data-driven suffix, whatever the calls
\* return; after a failed search or a missing input it makes none.
C11_ThreeComposeCallsUnmodified ==
    last.op = "search" =>
        /\ SearchRunShape
        /\ last.stage = "generated" =>
              last.returned[1].custom_prompt = last.custom_prompt

\* C11 as amended: the same, the first call being given the sanitized
\* style instructions with no suffix.
C11_ThreeComposeCallsSanitized ==
    last.op = "search" =>
        /\ SearchRunShape
        /\ last.stage = "generated" =>
              last.returned[1].custom_prompt = clean_text_content(last.custom_prompt)

C11_Witness ==
    /\ last.op = "search" /\ last.stage = "generated"
    /\ HasParens(last.custom_prompt)
    /\ last.returned[2].error # NoError
    /\ last.returned[3].error = NoError
    /\ Len(last.returned) = 3

====
